---- MODULE Spec2Model ----
(***************************************************************************)
(* A model of the raw-data import engine of isabl_cli (src/cli/data.py):   *)
(* DataImporter.import_data, match_path, import_files, format_fastq_name,  *)
(* get_regex_pattern and get_summary, together with the storage helpers    *)
(* make_storage_directory / update_storage_url and the file operations of  *)
(* BaseImporter.                                                           *)
(*                                                                         *)
(* Strings are sequences of one-character strings, so that the regular     *)
(* expressions of the source can be evaluated character by character.      *)
(* Python's None and the empty string are both the empty sequence: the     *)
(* code only ever tests them for truthiness.                               *)
(***************************************************************************)
EXTENDS Integers, Sequences, FiniteSets, TLC

(***************************************************************************)
(* Characters and elementary string functions                              *)
(***************************************************************************)

None == << >>

\* the character class [-_.] used by get_regex_pattern
Separators == {"-", "_", "."}

\* the character class [_.] used by FASTQ_REGEX and format_fastq_name
IndexSeparators == {"_", "."}

Range(s) == {s[k] : k \in DOMAIN s}

\* str.startswith
StartsWith(s, prefix) ==
    /\ Len(prefix) <= Len(s)
    /\ SubSeq(s, 1, Len(prefix)) = prefix

\* a regular expression of the form  <literal>$  searched in s
EndsWith(s, suffix) ==
    /\ Len(suffix) <= Len(s)
    /\ SubSeq(s, Len(s) - Len(suffix) + 1, Len(s)) = suffix

\* the literal `lit` occurs in s starting at position p (1-based)
LitAt(s, p, lit) ==
    /\ p >= 1
    /\ p + Len(lit) - 1 <= Len(s)
    /\ SubSeq(s, p, p + Len(lit) - 1) = lit

\* position of the last "/" of a path, 0 when there is none
LastSlash(path) ==
    IF \E k \in DOMAIN path : path[k] = "/"
    THEN CHOOSE k \in DOMAIN path :
            /\ path[k] = "/"
            /\ \A j \in DOMAIN path : path[j] = "/" => j <= k
    ELSE 0

\* os.path.basename
basename(path) == SubSeq(path, LastSlash(path) + 1, Len(path))

\* os.path.dirname: the `root` os.walk reported the file under
dirname(path) ==
    IF LastSlash(path) <= 1 THEN SubSeq(path, 1, LastSlash(path))
    ELSE SubSeq(path, 1, LastSlash(path) - 1)

\* os.path.join of two components
join(a, b) ==
    IF b # << >> /\ b[1] = "/" THEN b
    ELSE IF a = << >> \/ a[Len(a)] = "/" THEN a \o b
    ELSE a \o <<"/">> \o b

\* str(n) for a natural number n
RECURSIVE str(_)
str(n) ==
    LET d == <<"0", "1", "2", "3", "4", "5", "6", "7", "8", "9">>[(n % 10) + 1]
    IN  IF n < 10 THEN <<d>> ELSE str(n \div 10) \o <<d>>

\* f'{n:04d}': str(n) padded with zeros on the left to at least four digits
RECURSIVE ZeroPad(_, _)
ZeroPad(s, width) == IF Len(s) >= width THEN s ELSE ZeroPad(<<"0">> \o s, width)

Format04d(n) == ZeroPad(str(n), 4)

(***************************************************************************)
(* Regular expressions of DataImporter                                     *)
(***************************************************************************)

BAM_REGEX(path) == EndsWith(path, <<".", "b", "a", "m">>)

CRAM_REGEX(path) == EndsWith(path, <<".", "c", "r", "a", "m">>)

Fq == <<"f", "q">>

Fastq == <<"f", "a", "s", "t", "q">>

Gz == <<".", "g", "z">>

\* the strings matched by  f(ast)?q(\.gz)?
FastqTails == {Fq, Fastq, Fq \o Gz, Fastq \o Gz}

\* re.search(FASTQ_REGEX.format(i), path), where
\*   FASTQ_REGEX = (([_.]R{0}[_.].+)|([_.]R{0}\.)|(_{0}\.))f(ast)?q(\.gz)?$
\* t is the position of the "f" of the tail
FASTQ_REGEX(i, path) ==
    \E tail \in FastqTails :
        /\ EndsWith(path, tail)
        /\ LET t == Len(path) - Len(tail) + 1
           IN  \/ \E j \in 1..(t - 5) :
                     /\ path[j] \in IndexSeparators
                     /\ path[j + 1] = "R"
                     /\ <<path[j + 2]>> = str(i)
                     /\ path[j + 3] \in IndexSeparators
               \/ /\ t >= 5
                  /\ path[t - 4] \in IndexSeparators
                  /\ path[t - 3] = "R"
                  /\ <<path[t - 2]>> = str(i)
                  /\ path[t - 1] = "."
               \/ /\ t >= 4
                  /\ path[t - 3] = "_"
                  /\ <<path[t - 2]>> = str(i)
                  /\ path[t - 1] = "."

\* re.search(r'\.f(ast)?q(\.gz)?$', path)
FastqExtension(path) == \E tail \in FastqTails : EndsWith(path, <<".">> \o tail)

\* one element of a compiled identifier: a literal character or the class [-_.]
ElementMatches(e, c) == IF e = "[-_.]" THEN c \in Separators ELSE e = c

\* the identifier part of the pattern, followed by [-_.], matches at position p
IdentifierAt(pattern, path, p) ==
    /\ p >= 1
    /\ p + Len(pattern) <= Len(path)
    /\ \A k \in DOMAIN pattern : ElementMatches(pattern[k], path[p + k - 1])
    /\ path[p + Len(pattern)] \in Separators

\* the group  (^|[-_.])?<pattern>[-_.]  matches starting at position p
GroupAt(pattern, path, p) ==
    \/ /\ p <= Len(path)
       /\ path[p] \in Separators
       /\ IdentifierAt(pattern, path, p + 1)
    \/ IdentifierAt(pattern, path, p)

\* get_regex_pattern without the re.sub of line 579: separators stay literal
get_regex_pattern_literal(group_name, identifier) ==
    [group |-> group_name, pattern |-> identifier]

\* re.sub(r'[-_.]', r'[-_.]', identifier) wrapped in the named group
get_regex_pattern(group_name, identifier) ==
    [group |-> group_name,
     pattern |-> [k \in DOMAIN identifier |->
                    IF identifier[k] \in Separators THEN "[-_.]" ELSE identifier[k]]]

\* next(pattern.finditer(path)).lastgroup for pattern = '|'.join(patterns):
\* the leftmost position where some alternative matches, and there the first
\* alternative that does; 0 when nothing matches (StopIteration)
FirstMatch(patterns, path) ==
    LET hit(p) == {k \in DOMAIN patterns : GroupAt(patterns[k].pattern, path, p)}
        starts == {p \in DOMAIN path : hit(p) # {}}
    IN  IF starts = {} THEN 0
        ELSE LET p == CHOOSE q \in starts : \A r \in starts : q <= r
                 k == CHOOSE a \in hit(p) : \A b \in hit(p) : a <= b
             IN  patterns[k].group

\* DataImporter.match_path: index is the matched primary key, 0 for None;
\* raised tells that click.UsageError was raised
match_path(path, patterns) ==
    LET index == FirstMatch(patterns, path)
        valid == \/ BAM_REGEX(path)
                 \/ CRAM_REGEX(path)
                 \/ \E i \in {1, 2} : FASTQ_REGEX(i, path)
    IN  IF index = 0 THEN [index |-> 0, raised |-> FALSE]
        ELSE IF FastqExtension(path) /\ ~valid THEN [index |-> index, raised |-> TRUE]
        ELSE IF ~valid THEN [index |-> 0, raised |-> FALSE]
        ELSE [index |-> index, raised |-> FALSE]

(***************************************************************************)
(* format_fastq_name                                                       *)
(***************************************************************************)

\* length of the match of  f(ast)?q  at position p, -1 when there is none
FqLen(s, p) ==
    IF LitAt(s, p, Fastq) THEN 5 ELSE IF LitAt(s, p, Fq) THEN 2 ELSE -1

\* length of the match of  ([_.])?\.f(ast)?q  at position p, -1 for none
IndexTailLen(s, p) ==
    IF /\ p + 1 <= Len(s)
       /\ s[p] \in IndexSeparators
       /\ s[p + 1] = "."
       /\ FqLen(s, p + 2) > 0
    THEN 2 + FqLen(s, p + 2)
    ELSE IF p <= Len(s) /\ s[p] = "." /\ FqLen(s, p + 1) > 0
    THEN 1 + FqLen(s, p + 1)
    ELSE -1

\* length of the match at position p of one of the four expressions of
\* format_fastq_name for read index i, -1 when it does not match there
MatchLen(regex, i, s, p) ==
    IF ~(p <= Len(s) /\ s[p] \in IndexSeparators) THEN -1
    ELSE IF regex = "letter_index_fastq"
    THEN IF LitAt(s, p + 1, <<"R">> \o str(i)) /\ IndexTailLen(s, p + 3) > 0
         THEN 3 + IndexTailLen(s, p + 3) ELSE -1
    ELSE IF regex = "number_index_fastq"
    THEN IF LitAt(s, p + 1, str(i)) /\ IndexTailLen(s, p + 2) > 0
         THEN 2 + IndexTailLen(s, p + 2) ELSE -1
    ELSE IF regex = "letter_index_any_location"
    THEN IF /\ LitAt(s, p + 1, <<"R">> \o str(i))
            /\ p + 3 <= Len(s)
            /\ s[p + 3] \in IndexSeparators
         THEN 4 ELSE -1
    ELSE IF FqLen(s, p + 1) > 0 THEN 1 + FqLen(s, p + 1) ELSE -1

\* re.sub(regex, repl, s) from position p on: every leftmost non-overlapping
\* match is replaced
RECURSIVE SubFrom(_, _, _, _, _)
SubFrom(regex, i, repl, s, p) ==
    IF p > Len(s) THEN << >>
    ELSE IF MatchLen(regex, i, s, p) > 0
    THEN repl \o SubFrom(regex, i, repl, s, p + MatchLen(regex, i, s, p))
    ELSE <<s[p]>> \o SubFrom(regex, i, repl, s, p + 1)

re_sub(regex, i, repl, s) == SubFrom(regex, i, repl, s, 1)

\* system_settings.FASTQ_READ_PREFIX
FASTQ_READ_PREFIX == << >>

\* the read index format_fastq_name settles on, 0 when the assertion fails
ReadIndex(file_name) ==
    IF FASTQ_REGEX(1, file_name) THEN 1
    ELSE IF FASTQ_REGEX(2, file_name) THEN 2
    ELSE 0

\* format_fastq_name without the substitution of line 562
format_fastq_name_index_at_end(file_name) ==
    LET i == ReadIndex(file_name)
        suffix == <<"_">> \o FASTQ_READ_PREFIX \o str(i) \o <<".">> \o Fastq
        n1 == re_sub("letter_index_fastq", i, <<".">> \o Fastq, file_name)
        n2 == re_sub("number_index_fastq", i, <<".">> \o Fastq, n1)
    IN  re_sub("fastq", i, suffix, n2)

\* DataImporter.format_fastq_name, for a name whose read index is not 0
format_fastq_name(file_name) ==
    LET i == ReadIndex(file_name)
        suffix == <<"_">> \o FASTQ_READ_PREFIX \o str(i) \o <<".">> \o Fastq
        n1 == re_sub("letter_index_fastq", i, <<".">> \o Fastq, file_name)
        n2 == re_sub("number_index_fastq", i, <<".">> \o Fastq, n1)
        n3 == re_sub("letter_index_any_location", i, <<"_">>, n2)
    IN  re_sub("fastq", i, suffix, n3)

(***************************************************************************)
(* Storage helpers                                                         *)
(***************************************************************************)

\* system_settings.BASE_STORAGE_DIRECTORY
BASE_STORAGE_DIRECTORY == <<"/", "b">>

WorkflowsEndpoint == <<"w", "o", "r", "k", "f", "l", "o", "w", "s">>

DataDirName == <<"d", "a", "t", "a">>

\* make_storage_directory with hash_1 and hash_2 cut from the first four
\* digits instead of the last four
make_storage_directory_from_the_left(base, identifier, use_hash, root) ==
    LET padded == Format04d(identifier)
        hash_1 == SubSeq(padded, 1, 2)
        hash_2 == SubSeq(padded, 3, 4)
        path == IF use_hash THEN join(join(base, hash_1), hash_2) ELSE base
    IN  join(join(root, path), str(identifier))

\* make_storage_directory: the path it returns (and creates)
make_storage_directory(base, identifier, use_hash, root) ==
    LET padded == Format04d(identifier)
        n == Len(padded)
        hash_1 == SubSeq(padded, n - 3, n - 2)
        hash_2 == SubSeq(padded, n - 1, n)
        path == IF use_hash THEN join(join(base, hash_1), hash_2) ELSE base
    IN  join(join(root, path), str(identifier))

\* the directories os.makedirs(path, exist_ok=True) makes sure exist
RECURSIVE makedirs(_)
makedirs(path) ==
    IF LastSlash(path) <= 1 THEN {path}
    ELSE {path} \cup makedirs(dirname(path))

(***************************************************************************)
(* The registry and the files on disk                                      *)
(***************************************************************************)

\* primary keys of the workflows the registry query returns
Pks == {1, 2, 3}

S1 == <<"s", "1">>

S2 == <<"s", "2">>

S1x == <<"s", "1", "_", "x">>

Dup == <<"d", "u", "p">>

SystemId(pk) == IF pk = 1 THEN S1 ELSE IF pk = 2 THEN S2 ELSE S1x

CenterId(pk) == IF pk = 1 THEN None ELSE Dup

\* the nested object every workflow has under 'specimen'
Specimen(pk) == [type |-> "dict", value |-> None]

\* a free field: an object on workflow 1, the same string on workflows 2 and 3
Custom(pk) ==
    IF pk = 1 THEN [type |-> "dict", value |-> None]
    ELSE [type |-> "str", value |-> Dup]

\* sequencing data recorded by an earlier import
OldData ==
    << [file_url |-> <<"/", "o">>, file_type |-> "BAM", file_data |-> "",
        hash_value |-> 1] >>

\* workflow 2 was given a storage directory by symlink_analysis_to_targets
InitialStorageUrl(pk) ==
    IF pk = 2
    THEN make_storage_directory(WorkflowsEndpoint, pk, FALSE, BASE_STORAGE_DIRECTORY)
    ELSE None

InitialWorkflow(pk, withData) ==
    [pk |-> pk,
     system_id |-> SystemId(pk),
     center_id |-> CenterId(pk),
     specimen |-> Specimen(pk),
     custom |-> Custom(pk),
     sequencing_data |-> IF pk \in withData THEN OldData ELSE << >>,
     storage_url |-> InitialStorageUrl(pk),
     storage_usage |-> 0]

InDir == <<"/", "i", "n">>

TokenDir == InDir \o <<"/", "a", "_", "R", "1", "_", "b">>

SiblingDir == BASE_STORAGE_DIRECTORY \o <<"_", "k">>

R1 == <<"_", "R", "1">>

R2 == <<"_", "R", "2">>

\* the files that may lie on disk before the first invocation, in the order
\* os.walk reports them
Catalogue ==
    << join(InDir, S1 \o R1 \o <<"_", "x", ".">> \o Fastq),
       join(InDir, S1 \o R2 \o <<"_", "x", ".">> \o Fastq),
       join(InDir, S2 \o <<".", "b", "a", "m">>),
       join(InDir, S2 \o <<"_", "1", ".">> \o Fastq),
       join(InDir, S1 \o <<".">> \o Fastq),
       join(TokenDir, S1 \o <<".">> \o Fq),
       join(SiblingDir, S2 \o <<".", "b", "a", "m">>),
       join(InDir, <<"x", ".">> \o S1 \o R2 \o <<".">> \o Fastq) >>

\* files whose names share an identifier, a basename or a canonical name with
\* a file of the catalogue, in the order os.walk reports them
MoreFiles ==
    << join(InDir, S1x \o R1 \o <<".">> \o Fastq),
       join(InDir, S2 \o <<".", "c", "r", "a", "m">>),
       join(InDir, S1 \o <<".", "c", "r", "a", "m">>),
       join(TokenDir, S2 \o <<".", "b", "a", "m">>) >>

AllFiles == Catalogue \o MoreFiles

\* the files that may lie on disk when names are ambiguous
AmbiguousFiles == {1, 2, 3} \cup {Len(Catalogue) + k : k \in DOMAIN MoreFiles}

\* at most this many files lie on disk initially
MaxFiles == 3

\* byte size of the k-th file of the catalogue
InitialSize(k) == 10 + k

\* the lists of directories import_data is called with
DirectoryLists == { <<InDir>>, <<<<"/">>>>, <<InDir, InDir>> }

\* the orders in which the registry query returns the workflows
Orders == { <<1, 2, 3>>, <<3, 2, 1>> }

\* the identifier paths: key(i) is i['system_id'], i['center_id'],
\* i['specimen'] or i['custom']
Keys == {"system_id", "center_id", "specimen", "custom"}

\* (commit, symlink)
Modes == { <<FALSE, FALSE>>, <<TRUE, FALSE>>, <<TRUE, TRUE>> }

\* files_data: annotations by file basename
files_data(file_name) ==
    IF file_name = S2 \o <<".", "b", "a", "m">> THEN "PL"
    ELSE IF file_name = S1 \o R1 \o <<"_", "x", ".">> \o Fastq THEN "LB"
    ELSE ""

VARIABLES
    workflows,      \* the registry: primary key -> workflow record
    fs,             \* the files on disk: path -> [kind, size, ref]
    dirs,           \* the directories created by os.makedirs
    directories,    \* the `directories` argument
    key,            \* the `key` argument
    order,          \* the order api.get_instances returns the workflows in
    pc,             \* where import_data is
    commit,         \* the `commit` argument
    symlink,        \* the `symlink` argument
    todo,           \* workflows still to be loaded
    identifiers,    \* sequence of [identifier, system_id]
    patterns,       \* sequence of compiled groups
    cache,          \* sequence of [pk, using_id, instance, files]
    queue,          \* files os.walk has still to report
    bar,            \* cache entries (by primary key) still to be processed
    cur,            \* import_files: [instance, src_dst, sequencing_data]
    workflows_matched,
    summary,
    error,
    offered,        \* history: paths passed to match_path in this invocation
    relocated,      \* history: [pk, src, dst] moved or linked in this invocation
    patched,        \* history: primary keys patched in this invocation
    reg0,           \* history: the registry when the invocation started
    imported,       \* history: primary keys imported by an earlier invocation
    preview,        \* history: the summary of the call before, if a dry-run
    probe           \* the input and the result of a function applied on its own

vars ==
    << workflows, fs, dirs, directories, key, order, pc, commit, symlink, todo,
       identifiers, patterns, cache, queue, bar, cur, workflows_matched,
       summary, error, offered, relocated, patched, reg0, imported, preview,
       probe >>

persistent == << workflows, fs, dirs >>

arguments == << directories, key, order, probe >>

NoProbe == [identifier |-> << >>, path |-> << >>, result |-> "none"]

NoError == [kind |-> "none", entities |-> << >>, paths |-> << >>]

NoSummary ==
    [skipped |-> << >>, missing |-> << >>, matched |-> << >>,
     total_samples |-> 0, samples_skipped |-> 0, samples_missing |-> 0,
     samples_matched |-> 0, total_files_matched |-> 0]

NoPreview == [valid |-> FALSE, summary |-> NoSummary]

NoCur == [instance |-> << >>, src_dst |-> << >>, sequencing_data |-> << >>]

\* the local variables of import_data before its first statement
Locals ==
    /\ todo = << >>
    /\ identifiers = << >>
    /\ patterns = << >>
    /\ cache = << >>
    /\ queue = << >>
    /\ bar = << >>
    /\ cur = NoCur
    /\ workflows_matched = << >>
    /\ summary = NoSummary
    /\ error = NoError
    /\ offered = {}
    /\ relocated = << >>
    /\ patched = {}

Init ==
    /\ \E present \in SUBSET DOMAIN Catalogue :
          /\ Cardinality(present) <= MaxFiles
          /\ fs = [p \in {Catalogue[k] : k \in present} |->
                    LET k == CHOOSE j \in present : Catalogue[j] = p
                    IN  [kind |-> "file", size |-> InitialSize(k), ref |-> p]]
    /\ \E withData \in {{}} \cup {{pk} : pk \in Pks} :
          workflows = [pk \in Pks |-> InitialWorkflow(pk, withData)]
    /\ dirs = {}
    /\ directories \in DirectoryLists
    /\ key \in Keys
    /\ order \in Orders
    /\ pc = "idle"
    /\ commit = FALSE
    /\ symlink = FALSE
    /\ Locals
    /\ reg0 = workflows
    /\ imported = {}
    /\ preview = NoPreview
    /\ probe = NoProbe

(***************************************************************************)
(* File system operations                                                  *)
(***************************************************************************)

RECURSIVE SetToSeq(_)
SetToSeq(S) ==
    IF S = {} THEN << >>
    ELSE LET x == CHOOSE y \in S : TRUE IN <<x>> \o SetToSeq(S \ {x})

\* a directory path with its trailing "/"
WithSlash(directory) ==
    IF directory # << >> /\ directory[Len(directory)] = "/" THEN directory
    ELSE directory \o <<"/">>

\* path lies in `directory` or in one of its subdirectories
Under(path, directory) == StartsWith(path, WithSlash(directory))

\* the number of directories above path
Depth(path) == Cardinality({k \in DOMAIN path : path[k] = "/"})

\* os.walk is top-down: the files of a directory come before the files of
\* its subdirectories
RECURSIVE TopDown(_, _)
TopDown(paths, depth) ==
    IF paths = << >> THEN << >>
    ELSE SelectSeq(paths, LAMBDA p : Depth(p) = depth)
            \o TopDown(SelectSeq(paths, LAMBDA p : Depth(p) # depth), depth + 1)

\* the files os.walk(directory) reports, as join(root, i), in its order
WalkFiles(directory) ==
    LET known == SelectSeq(AllFiles, LAMBDA p : p \in DOMAIN fs /\ Under(p, directory))
        others == {p \in DOMAIN fs \ Range(AllFiles) : Under(p, directory)}
    IN  TopDown(known, 1) \o SetToSeq(others)

RECURSIVE WalkAll(_)
WalkAll(ds) == IF ds = << >> THEN << >> ELSE WalkFiles(Head(ds)) \o WalkAll(Tail(ds))

\* os.path.realpath
realpath(path) ==
    IF path \in DOMAIN fs /\ fs[path].kind = "link" THEN fs[path].ref ELSE path

\* os.path.getsize follows links; -1 when the file does not exist (OSError)
getsize(path) ==
    IF realpath(path) \in DOMAIN fs THEN fs[realpath(path)].size ELSE -1

\* os.rename(src, dst) raises FileNotFoundError on the files `files`
RenameNeverRaises(files, src) == FALSE

RenameRaises(files, src) == src \notin DOMAIN files

\* os.rename(src, dst) on the files `files`; nothing changes when src is missing
rename(files, src, dst) ==
    IF src \notin DOMAIN files THEN files
    ELSE [p \in (DOMAIN files \ {src}) \cup {dst} |->
            IF p = dst THEN files[src] ELSE files[p]]

\* utils.force_symlink(src, dst) on the files `files`
force_symlink(files, src, dst) ==
    [p \in DOMAIN files \cup {dst} |->
        IF p = dst THEN [kind |-> "link", size |-> Len(src), ref |-> src]
        ELSE files[p]]

RECURSIVE SumSizes(_, _)
SumSizes(files, S) ==
    IF S = {} THEN 0
    ELSE LET x == CHOOSE y \in S : TRUE IN files[x].size + SumSizes(files, S \ {x})

\* utils.get_tree_size(path): links are not followed
get_tree_size(files, path) ==
    SumSizes(files, {p \in DOMAIN files : Under(p, path)})

(***************************************************************************)
(* The registry interface (cli.api)                                        *)
(***************************************************************************)

\* api.patch_instance('workflows', pk, storage_url=...)
patch_storage_url(registry, pk, storage_url) ==
    [registry EXCEPT ![pk].storage_url = storage_url]

\* api.patch_instance('workflows', pk, storage_url=, storage_usage=, sequencing_data=)
patch_instance(registry, pk, storage_url, storage_usage, sequencing_data) ==
    [registry EXCEPT ![pk].storage_url = storage_url,
                     ![pk].storage_usage = storage_usage,
                     ![pk].sequencing_data = sequencing_data]

(***************************************************************************)
(* import_data                                                             *)
(***************************************************************************)

\* `value` of lines 644-646, with its Python type
Resolve(i) ==
    IF key = "system_id" THEN [type |-> "str", value |-> i.system_id]
    ELSE IF key = "center_id"
    THEN [type |-> IF i.center_id = None THEN "NoneType" ELSE "str",
          value |-> i.center_id]
    ELSE IF key = "specimen" THEN i.specimen
    ELSE i.custom

\* lines 647-650 without the test: no value is refused
AnyType(i) == FALSE

\* `if not isinstance(value, types)` at line 647
InvalidType(i) == Resolve(i).type \notin {"int", "str", "NoneType"}

\* key(i), when it returns
Key(i) == Resolve(i).value

\* identifier in identifiers
InIdentifiers(ids, identifier) == \E k \in DOMAIN ids : ids[k].identifier = identifier

\* identifiers[identifier]
IdentifierOwner(ids, identifier) ==
    ids[CHOOSE k \in DOMAIN ids : ids[k].identifier = identifier].system_id

\* position of the cache entry of primary key pk
CacheIndex(c, pk) == CHOOSE k \in DOMAIN c : c[k].pk = pk

RECURSIVE SortSet(_)
SortSet(S) ==
    IF S = {} THEN << >>
    ELSE LET m == CHOOSE x \in S : \A y \in S : x <= y
         IN  <<m>> \o SortSet(S \ {m})

\* cache.values() without the sort of line 436, as primary keys
InCacheOrder(c) == [k \in DOMAIN c |-> c[k].pk]

\* sorted(cache.values(), key=lambda x: x['instance']['pk']), as primary keys
SortedByPk(c) == SortSet({c[k].pk : k \in DOMAIN c})

\* line 588 reading the registry as it is now, not the instance of the cache
IsSkippedInRegistry(entry) == workflows[entry.pk].sequencing_data # << >>

\* the three branches of get_summary, lines 588-597
IsSkipped(entry) == entry.instance.sequencing_data # << >>

IsMatched(entry) == ~IsSkipped(entry) /\ entry.files # << >>

\* lines 591-597 with `if` for the `elif` of line 591
IsMissingIf(entry) == entry.files = << >>

IsMissing(entry) == ~IsSkipped(entry) /\ ~IsMatched(entry)

\* DataImporter.get_summary
get_summary(c) ==
    LET isSkipped(k) == IsSkipped(c[k])
        isMatched(k) == IsMatched(c[k])
        isMissing(k) == IsMissing(c[k])
        idx == [k \in DOMAIN c |-> k]
        skipped == SelectSeq(idx, isSkipped)
        matched == SelectSeq(idx, isMatched)
        missing == SelectSeq(idx, isMissing)
        RECURSIVE count(_)
        count(q) == IF q = << >> THEN 0 ELSE Len(c[Head(q)].files) + count(Tail(q))
    IN  [skipped |-> [k \in DOMAIN skipped |-> c[skipped[k]].using_id],
         missing |-> [k \in DOMAIN missing |-> c[missing[k]].using_id],
         matched |-> [k \in DOMAIN matched |->
                        [using_id |-> c[matched[k]].using_id,
                         files |-> c[matched[k]].files]],
         total_samples |-> Len(c),
         samples_skipped |-> Len(skipped),
         samples_missing |-> Len(missing),
         samples_matched |-> Len(matched),
         total_files_matched |-> count(matched)]

\* line 408 without its test of i['sequencing_data']
EligibleIgnoringData(i, identifier) == identifier # None

\* `if identifier and not i['sequencing_data']` at line 408
Eligible(i, identifier) == identifier # None /\ i.sequencing_data = << >>

\* import_data is called: lines 384-397
Invoke ==
    /\ pc = "idle"
    /\ \E mode \in Modes :
          /\ commit' = mode[1]
          /\ symlink' = mode[2]
    /\ pc' = "load"
    /\ todo' = order
    /\ UNCHANGED << persistent, arguments, identifiers, patterns, cache, queue,
                    bar, cur, workflows_matched, summary, error, offered,
                    relocated, patched, reg0, imported,
                    preview >>

\* one iteration of the loop over api.get_instances: lines 398-415
LoadWorkflow ==
    /\ pc = "load"
    /\ todo # << >>
    /\ LET i == reg0[Head(todo)]
           identifier == Key(i)
           eligible == Eligible(i, identifier)
       IN  IF InvalidType(i)
           THEN /\ pc' = "error"
                /\ error' = [kind |-> "invalid_type", entities |-> <<i.system_id>>,
                             paths |-> << >>]
                /\ UNCHANGED << todo, identifiers, patterns, cache >>
           ELSE IF InIdentifiers(identifiers, identifier)
           THEN /\ pc' = "error"
                /\ error' = [kind |-> "duplicate",
                             entities |-> <<i.system_id,
                                            IdentifierOwner(identifiers, identifier)>>,
                             paths |-> << >>]
                /\ UNCHANGED << todo, identifiers, patterns, cache >>
           ELSE /\ identifiers' =
                      IF eligible
                      THEN Append(identifiers,
                                  [identifier |-> identifier, system_id |-> i.system_id])
                      ELSE identifiers
                /\ patterns' =
                      IF eligible
                      THEN Append(patterns, get_regex_pattern(i.pk, identifier))
                      ELSE patterns
                /\ cache' = Append(cache,
                      [pk |-> i.pk,
                       using_id |-> [system_id |-> i.system_id,
                                     using |-> IF eligible THEN identifier ELSE None],
                       instance |-> i,
                       files |-> << >>])
                /\ todo' = Tail(todo)
                /\ UNCHANGED << pc, error >>
    /\ UNCHANGED << persistent, arguments, commit, symlink, queue, bar, cur,
                    workflows_matched, summary, offered, relocated, patched,
                    reg0, imported,
                    preview >>

\* the loop is over: `if patterns:` at line 417, or the return at line 448
LoadDone ==
    /\ pc = "load"
    /\ todo = << >>
    /\ IF patterns # << >>
       THEN /\ pc' = "scan"
            /\ queue' = WalkAll(directories)
            /\ UNCHANGED summary
       ELSE /\ pc' = "done"
            /\ summary' = get_summary(cache)
            /\ UNCHANGED queue
    /\ UNCHANGED << persistent, arguments, commit, symlink, todo, identifiers,
                    patterns, cache, bar, cur, workflows_matched, error, offered,
                    relocated, patched, reg0, imported,
                    preview >>

\* `if not root.startswith(data_storage_dir)` at line 427
Explored(path) == ~StartsWith(dirname(path), BASE_STORAGE_DIRECTORY)

\* one file reported by os.walk: lines 426-432
ScanFile ==
    /\ pc = "scan"
    /\ queue # << >>
    /\ LET path == Head(queue)
           m == match_path(path, patterns)
       IN  IF ~Explored(path)
           THEN UNCHANGED << pc, error, cache, offered >>
           ELSE /\ offered' = offered \cup {path}
                /\ IF m.raised
                   THEN /\ pc' = "error"
                        /\ error' = [kind |-> "read_index", entities |-> << >>,
                                     paths |-> <<path>>]
                        /\ UNCHANGED cache
                   ELSE /\ cache' =
                             IF m.index = 0 THEN cache
                             ELSE [cache EXCEPT ![CacheIndex(cache, m.index)].files =
                                        Append(@, path)]
                        /\ UNCHANGED << pc, error >>
    /\ queue' = Tail(queue)
    /\ UNCHANGED << persistent, arguments, commit, symlink, todo, identifiers,
                    patterns, bar, cur, workflows_matched, summary, relocated,
                    patched, reg0, imported,
                    preview >>

\* every directory was explored: line 436
ScanDone ==
    /\ pc = "scan"
    /\ queue = << >>
    /\ pc' = "process"
    /\ bar' = SortedByPk(cache)
    /\ UNCHANGED << persistent, arguments, commit, symlink, todo, identifiers,
                    patterns, cache, queue, cur, workflows_matched, summary,
                    error, offered, relocated, patched, reg0, imported,
                    preview >>

(***************************************************************************)
(* import_files                                                            *)
(***************************************************************************)

\* file_type of lines 508-513
FileType(src) ==
    IF BAM_REGEX(src) THEN "BAM" ELSE IF CRAM_REGEX(src) THEN "CRAM" ELSE "FASTQ"

\* the assertion of format_fastq_name fails for src
AssertionFails(src) == FileType(src) = "FASTQ" /\ ReadIndex(basename(src)) = 0

\* lines 505-517 without the call of format_fastq_name at line 514
DestinationNameUnformatted(system_id, src) ==
    IF StartsWith(basename(src), system_id) THEN basename(src)
    ELSE system_id \o <<"_", "_">> \o basename(src)

\* lines 505-515 without the prefix of lines 516-517
DestinationNameWithoutPrefix(system_id, src) ==
    IF FileType(src) = "FASTQ" THEN format_fastq_name(basename(src))
    ELSE basename(src)

\* file_name of lines 505-517
DestinationName(system_id, src) ==
    LET named == IF FileType(src) = "FASTQ" THEN format_fastq_name(basename(src))
                 ELSE basename(src)
    IN  IF StartsWith(named, system_id) THEN named
        ELSE system_id \o <<"_", "_">> \o named

\* dst of line 519
Destination(instance, src) ==
    join(join(instance.storage_url, DataDirName),
         DestinationName(instance.system_id, src))

\* lines 521-526 with file_data looked up by the name the file is given
DescriptorByNewName(instance, src) ==
    [file_url |-> join(join(instance.storage_url, DataDirName),
                       IF FileType(src) = "FASTQ"
                       THEN format_fastq_name(basename(src)) ELSE basename(src)),
     file_type |-> FileType(src),
     file_data |-> files_data(IF FileType(src) = "FASTQ"
                              THEN format_fastq_name(basename(src))
                              ELSE basename(src)),
     hash_value |-> getsize(src)]

\* the descriptor of lines 521-526
Descriptor(instance, src) ==
    [file_url |-> Destination(instance, src),
     file_type |-> FileType(src),
     file_data |-> files_data(basename(src)),
     hash_value |-> getsize(src)]

\* lines 504-526 without the append of line 521
SequencingDataEmpty(instance, files) == << >>

\* sequencing_data as lines 504-526 build it
SequencingData(instance, files) ==
    [k \in DOMAIN files |-> Descriptor(instance, files[k])]

\* the check of line 528
MultipleFormats(files) == Cardinality({FileType(files[k]) : k \in DOMAIN files}) > 1

\* line 439 without its test of commit
ShallImportAlways(entry) == entry.files # << >>

\* `commit and i['files']` at line 439
ShallImport(entry) == commit /\ entry.files # << >>

\* line 495 without its test: a storage directory is allocated every time
AlwaysAllocate(instance) == TRUE

\* `if not instance['storage_url']` at line 495
NoStorageUrl(instance) == instance.storage_url = None

\* one iteration of the loop of line 438 that calls import_files, up to the
\* check of the data formats: lines 439-444 and 492-532
ImportBegin ==
    /\ pc = "process"
    /\ bar # << >>
    /\ LET entry == cache[CacheIndex(cache, Head(bar))]
           given == entry.instance
           allocate == NoStorageUrl(given)
           url == IF allocate
                  THEN make_storage_directory(WorkflowsEndpoint, given.pk, TRUE,
                                              BASE_STORAGE_DIRECTORY)
                  ELSE given.storage_url
           registry == IF allocate THEN patch_storage_url(workflows, given.pk, url)
                       ELSE workflows
           instance == IF allocate THEN registry[given.pk] ELSE given
           files == entry.files
           sequencing_data == SequencingData(instance, files)
           src_dst == [k \in DOMAIN files |->
                         [src |-> files[k], dst |-> Destination(instance, files[k])]]
       IN  /\ ShallImport(entry)
           /\ workflows' = registry
           /\ patched' = IF allocate THEN patched \cup {given.pk} ELSE patched
           /\ dirs' = dirs \cup makedirs(join(url, DataDirName))
           /\ IF \E k \in DOMAIN files : AssertionFails(files[k])
              THEN /\ pc' = "error"
                   /\ error' = [kind |-> "assertion",
                                entities |-> <<instance.system_id>>,
                                paths |-> SelectSeq(files, AssertionFails)]
                   /\ UNCHANGED cur
              ELSE IF MultipleFormats(files)
              THEN /\ pc' = "error"
                   /\ error' = [kind |-> "multiple_formats",
                                entities |-> <<instance.system_id>>,
                                paths |-> [k \in DOMAIN files |->
                                             Destination(instance, files[k])]]
                   /\ UNCHANGED cur
              ELSE /\ pc' = "import"
                   /\ cur' = [instance |-> instance, src_dst |-> src_dst,
                              sequencing_data |-> sequencing_data]
                   /\ UNCHANGED error
    /\ UNCHANGED << fs, arguments, commit, symlink, todo, identifiers, patterns,
                    cache, queue, bar, workflows_matched, summary, offered,
                    relocated, reg0, imported,
                    preview >>

\* one iteration of the loop of lines 534-538
RelocateFile ==
    /\ pc = "import"
    /\ cur.src_dst # << >>
    /\ LET src == realpath(Head(cur.src_dst).src)
           dst == Head(cur.src_dst).dst
       IN  IF symlink
           THEN /\ fs' = force_symlink(fs, src, dst)
                /\ relocated' = Append(relocated,
                      [pk |-> cur.instance.pk, src |-> Head(cur.src_dst).src, dst |-> dst])
                /\ cur' = [cur EXCEPT !.src_dst = Tail(@)]
                /\ UNCHANGED << pc, error >>
           ELSE IF ~RenameRaises(fs, src)
           THEN /\ fs' = rename(fs, src, dst)
                /\ relocated' = Append(relocated,
                      [pk |-> cur.instance.pk, src |-> Head(cur.src_dst).src, dst |-> dst])
                /\ cur' = [cur EXCEPT !.src_dst = Tail(@)]
                /\ UNCHANGED << pc, error >>
           ELSE /\ pc' = "error"
                /\ error' = [kind |-> "io", entities |-> <<cur.instance.system_id>>,
                             paths |-> <<src>>]
                /\ UNCHANGED << fs, relocated, cur >>
    /\ UNCHANGED << workflows, dirs, arguments, commit, symlink, todo, identifiers,
                    patterns, cache, queue, bar, workflows_matched, summary,
                    offered, patched, reg0, imported,
                    preview >>

\* the return of import_files, lines 540-545, and the append of line 440
ImportPatch ==
    /\ pc = "import"
    /\ cur.src_dst = << >>
    /\ LET pk == cur.instance.pk
           registry == patch_instance(workflows, pk, cur.instance.storage_url,
                                      get_tree_size(fs, cur.instance.storage_url),
                                      cur.sequencing_data)
       IN  /\ workflows' = registry
           /\ workflows_matched' = Append(workflows_matched, registry[pk])
           /\ patched' = patched \cup {pk}
    /\ pc' = "process"
    /\ bar' = Tail(bar)
    /\ cur' = NoCur
    /\ UNCHANGED << fs, dirs, arguments, commit, symlink, todo, identifiers,
                    patterns, cache, queue, summary, error, offered, relocated,
                    reg0, imported,
                    preview >>

\* an iteration of the loop of line 438 that does not call import_files:
\* lines 445-446
ProcessEntry ==
    /\ pc = "process"
    /\ bar # << >>
    /\ LET entry == cache[CacheIndex(cache, Head(bar))]
       IN  /\ ~ShallImport(entry)
           /\ workflows_matched' =
                 IF entry.files # << >> THEN Append(workflows_matched, entry.instance)
                 ELSE workflows_matched
    /\ bar' = Tail(bar)
    /\ UNCHANGED << persistent, arguments, pc, commit, symlink, todo, identifiers,
                    patterns, cache, queue, cur, summary, error, offered,
                    relocated, patched, reg0, imported,
                    preview >>

\* the return of line 448
Return ==
    /\ pc = "process"
    /\ bar = << >>
    /\ pc' = "done"
    /\ summary' = get_summary(cache)
    /\ UNCHANGED << persistent, arguments, commit, symlink, todo, identifiers,
                    patterns, cache, queue, bar, cur, workflows_matched, error,
                    offered, relocated, patched, reg0, imported,
                    preview >>

\* the entities whose import_files call of this invocation returned
ImportedNow == {workflows_matched[k].pk : k \in DOMAIN workflows_matched} \cap patched

\* the call is over, with a result or an exception; the caller may call again
Finish ==
    /\ pc \in {"done", "error"}
    /\ pc' = "idle"
    /\ imported' = imported \cup (IF commit THEN ImportedNow ELSE {})
    /\ preview' = IF pc = "done" /\ ~commit
                  THEN [valid |-> TRUE, summary |-> summary]
                  ELSE NoPreview
    /\ reg0' = workflows
    /\ commit' = FALSE
    /\ symlink' = FALSE
    /\ todo' = << >>
    /\ identifiers' = << >>
    /\ patterns' = << >>
    /\ cache' = << >>
    /\ queue' = << >>
    /\ bar' = << >>
    /\ cur' = NoCur
    /\ workflows_matched' = << >>
    /\ summary' = NoSummary
    /\ error' = NoError
    /\ offered' = {}
    /\ relocated' = << >>
    /\ patched' = {}
    /\ UNCHANGED << persistent, arguments >>

Next ==
    \/ Invoke
    \/ LoadWorkflow
    \/ LoadDone
    \/ ScanFile
    \/ ScanDone
    \/ ImportBegin
    \/ RelocateFile
    \/ ImportPatch
    \/ ProcessEntry
    \/ Return
    \/ Finish

Spec == Init /\ [][Next]_vars

\* import_data on directories whose file names are ambiguous
InitAmbiguous ==
    /\ \E present \in SUBSET AmbiguousFiles :
          /\ Cardinality(present) <= MaxFiles
          /\ fs = [p \in {AllFiles[k] : k \in present} |->
                    LET k == CHOOSE j \in present : AllFiles[j] = p
                    IN  [kind |-> "file", size |-> InitialSize(k), ref |-> p]]
    /\ workflows = [pk \in Pks |-> InitialWorkflow(pk, {})]
    /\ dirs = {}
    /\ directories \in DirectoryLists
    /\ key = "system_id"
    /\ order \in Orders
    /\ pc = "idle"
    /\ commit = FALSE
    /\ symlink = FALSE
    /\ Locals
    /\ reg0 = workflows
    /\ imported = {}
    /\ preview = NoPreview
    /\ probe = NoProbe

SpecAmbiguous == InitAmbiguous /\ [][Next]_vars

(***************************************************************************)
(* The compiled pattern of one identifier, applied to one path             *)
(***************************************************************************)

PatternIdentifiers == { S1, S2, S1x, <<"s", ".", "1">> }

PathPrefixes == { << >>, <<"x">>, <<"_">>, <<"/">>, InDir \o <<"/">>, <<"a", ".">> }

PathTokens ==
    { S1, <<"s", "_", "1">>, <<"s", "-", "1">>, <<"s", "1", ".", "x">>,
      <<"s", "1", "-", "x">>, S2 }

PathSuffixes ==
    { << >>, R1 \o <<".">> \o Fastq, <<"0">> \o R1 \o <<".">> \o Fastq,
      <<".", "b", "a", "m">>, <<"x", ".", "b", "a", "m">> }

ProbePaths ==
    { a \o b \o c : a \in PathPrefixes, b \in PathTokens, c \in PathSuffixes }

InitPattern ==
    /\ fs = << >>
    /\ workflows = [pk \in Pks |-> InitialWorkflow(pk, {})]
    /\ dirs = {}
    /\ directories = <<InDir>>
    /\ key = "system_id"
    /\ order = <<1, 2, 3>>
    /\ pc = "pattern"
    /\ commit = FALSE
    /\ symlink = FALSE
    /\ Locals
    /\ reg0 = workflows
    /\ imported = {}
    /\ preview = NoPreview
    /\ probe \in [identifier : PatternIdentifiers, path : ProbePaths, result : {"none"}]

\* lines 410, 419 and 453-454 for one identifier and one path
ApplyPattern ==
    /\ pc = "pattern"
    /\ probe.result = "none"
    /\ probe' = [probe EXCEPT !.result =
                    IF FirstMatch(<<get_regex_pattern(1, probe.identifier)>>,
                                  probe.path) # 0
                    THEN "match" ELSE "no match"]
    /\ UNCHANGED << persistent, directories, key, order, pc, commit, symlink,
                    todo, identifiers, patterns, cache, queue, bar, cur,
                    workflows_matched, summary, error, offered, relocated,
                    patched, reg0, imported,
                    preview >>

NextPattern == ApplyPattern

SpecPattern == InitPattern /\ [][NextPattern]_vars

(***************************************************************************)
(* format_fastq_name applied to one file name, and to its own result       *)
(***************************************************************************)

Sample == <<"s", "a", "m", "p", "l", "e">>

\* the pieces file names are made of: read tokens, separators and free text
NameSegments ==
    { R1, R2, <<".", "R", "1">>, <<".", "R", "2">>, <<"_", "1">>, <<"_", "2">>,
      <<"_">>, <<".">>,
      <<"_", "m", "o", "r", "e", "t", "e", "x", "t">>,
      <<".", "m", "o", "r", "e", "_", "t", "e", "x", "t">> }

\* a file name has at most this many pieces between 'sample' and its extension
MaxSegments == 3

\* the sequences of at most n pieces
RECURSIVE NameBodies(_)
NameBodies(n) ==
    IF n = 0 THEN {<< >>}
    ELSE NameBodies(n - 1) \cup
         {Append(b, g) : b \in NameBodies(n - 1), g \in NameSegments}

\* '.fastq', '.fq' and their gzipped forms
NameExtensions == {<<".">> \o tail : tail \in FastqTails}

RECURSIVE Concat(_)
Concat(pieces) ==
    IF pieces = << >> THEN << >> ELSE Head(pieces) \o Concat(Tail(pieces))

\* the file name made of 'sample', the pieces and the extension
FileName(pieces, extension) == Sample \o Concat(pieces) \o extension

InitFastq ==
    /\ fs = << >>
    /\ workflows = [pk \in Pks |-> InitialWorkflow(pk, {})]
    /\ dirs = {}
    /\ directories = <<InDir>>
    /\ key = "system_id"
    /\ order = <<1, 2, 3>>
    /\ pc = "fastq"
    /\ commit = FALSE
    /\ symlink = FALSE
    /\ Locals
    /\ reg0 = workflows
    /\ imported = {}
    /\ preview = NoPreview
    /\ \E b \in NameBodies(MaxSegments), e \in NameExtensions :
          probe = [pieces |-> b, extension |-> e, name |-> FileName(b, e),
                   calls |-> 0, raised |-> FALSE, result |-> << >>,
                   again |-> << >>]

\* format_fastq_name(file_name): lines 547-563; the assertion is line 556
FormatName ==
    /\ pc = "fastq"
    /\ probe.calls = 0
    /\ probe' =
          IF ReadIndex(probe.name) = 0
          THEN [probe EXCEPT !.calls = 1, !.raised = TRUE]
          ELSE [probe EXCEPT !.calls = 1, !.result = format_fastq_name(probe.name)]
    /\ UNCHANGED << persistent, directories, key, order, pc, commit, symlink,
                    todo, identifiers, patterns, cache, queue, bar, cur,
                    workflows_matched, summary, error, offered, relocated,
                    patched, reg0, imported,
                    preview >>

\* format_fastq_name applied to the name it returned
FormatAgain ==
    /\ pc = "fastq"
    /\ probe.calls = 1
    /\ ~probe.raised
    /\ probe' =
          IF ReadIndex(probe.result) = 0
          THEN [probe EXCEPT !.calls = 2, !.raised = TRUE]
          ELSE [probe EXCEPT !.calls = 2, !.again = format_fastq_name(probe.result)]
    /\ UNCHANGED << persistent, directories, key, order, pc, commit, symlink,
                    todo, identifiers, patterns, cache, queue, bar, cur,
                    workflows_matched, summary, error, offered, relocated,
                    patched, reg0, imported,
                    preview >>

NextFastq == FormatName \/ FormatAgain

SpecFastq == InitFastq /\ [][NextFastq]_vars

(***************************************************************************)
(* trash_analysis_storage                                                  *)
(***************************************************************************)

AnalysesEndpoint == <<"a", "n", "a", "l", "y", "s", "e", "s">>

TrashBase == <<".", "a", "n", "a", "l", "y", "s", "e", "s", "_", "t", "r", "a", "s", "h">>

AnalysisPks == {7, 12345}

AnalysisStatuses == {"CREATED", "STARTED", "FAILED", "SUCCEEDED"}

\* the directory an analysis of primary key pk writes to
AnalysisStorageUrl(pk) ==
    make_storage_directory(AnalysesEndpoint, pk, TRUE, BASE_STORAGE_DIRECTORY)

\* the files an analysis may have written
AnalysisOutputs == {<<"o">>, <<"l", "o", "g">>}

\* getuser()
User == <<"u">>

\* the values of datetime.now(system_settings.TIME_ZONE).isoformat()
Dates == {<<"t", "1">>, <<"t", "2">>, <<"t", "3">>}

\* slug of lines 62-63
TrashSlug(pk, date) ==
    <<"p", "r", "i", "m", "a", "r", "y", "_", "k", "e", "y", "_">> \o str(pk) \o <<"_", "_", "u", "s", "e", "r", "_">> \o User
        \o <<"_", "_", "d", "a", "t", "e", "_">> \o date

\* where shutil.move(src, dst) puts `path`, which is src or lies under it
Moved(path, src, dst) == dst \o SubSeq(path, Len(src) + 1, Len(path))

InitTrash ==
    /\ workflows = [pk \in Pks |-> InitialWorkflow(pk, {})]
    /\ directories = <<InDir>>
    /\ key = "system_id"
    /\ order = <<1, 2, 3>>
    /\ pc = "trash"
    /\ commit = FALSE
    /\ symlink = FALSE
    /\ Locals
    /\ reg0 = workflows
    /\ imported = {}
    /\ preview = NoPreview
    /\ \E pk \in AnalysisPks, status \in AnalysisStatuses, exists \in BOOLEAN,
          outputs \in SUBSET AnalysisOutputs :
          /\ ~exists => outputs = {}
          /\ dirs = IF exists THEN makedirs(AnalysisStorageUrl(pk)) ELSE {}
          /\ fs = [p \in {join(AnalysisStorageUrl(pk), o) : o \in outputs} |->
                    [kind |-> "file", size |-> Len(p), ref |-> p]]
          /\ probe = [analysis |-> [pk |-> pk, status |-> status,
                                    storage_url |-> AnalysisStorageUrl(pk)],
                      result |-> "none", looked |-> FALSE, dirs |-> dirs,
                      fs |-> fs]

\* lines 58-59 without the test: every analysis may be wiped
NeverSucceeded(analysis) == FALSE

\* `analysis['status'] == 'SUCCEEDED'` at line 58
Succeeded(analysis) == analysis.status = "SUCCEEDED"

\* trash_analysis_storage, lines 58-59
TrashCheck ==
    /\ pc = "trash"
    /\ probe.result = "none"
    /\ IF Succeeded(probe.analysis)
       THEN /\ probe' = [probe EXCEPT !.result = "UsageError"]
            /\ UNCHANGED pc
       ELSE /\ pc' = "trash_move"
            /\ UNCHANGED probe
    /\ UNCHANGED << persistent, directories, key, order, commit, symlink, todo,
                    identifiers, patterns, cache, queue, bar, cur,
                    workflows_matched, summary, error, offered, relocated,
                    patched, reg0, imported, preview >>

\* trash_analysis_storage, lines 61-72
TrashMove ==
    /\ pc = "trash_move"
    /\ probe.result = "none"
    /\ LET src == probe.analysis.storage_url
           pk == probe.analysis.pk
           trash_dir == make_storage_directory(TrashBase, pk, TRUE,
                                               BASE_STORAGE_DIRECTORY)
       IN  IF src \in dirs
           THEN \E date \in Dates :
                   LET dst == join(trash_dir, TrashSlug(pk, date))
                       inside(p) == p = src \/ Under(p, src)
                   IN  /\ dirs' = {d \in dirs \cup makedirs(trash_dir) : ~inside(d)}
                                    \cup {Moved(d, src, dst) : d \in {e \in dirs : inside(e)}}
                       /\ fs' = [q \in {IF inside(p) THEN Moved(p, src, dst) ELSE p :
                                            p \in DOMAIN fs} |->
                                   LET p == CHOOSE r \in DOMAIN fs :
                                              q = IF inside(r) THEN Moved(r, src, dst) ELSE r
                                   IN  fs[p]]
           ELSE UNCHANGED << dirs, fs >>
    /\ probe' = [probe EXCEPT !.result = "returned", !.looked = TRUE]
    /\ pc' = "trash"
    /\ UNCHANGED << workflows, directories, key, order, commit, symlink, todo,
                    identifiers, patterns, cache, queue, bar, cur,
                    workflows_matched, summary, error, offered, relocated,
                    patched, reg0, imported, preview >>

NextTrash == TrashCheck \/ TrashMove

SpecTrash == InitTrash /\ [][NextTrash]_vars

(***************************************************************************)
(* make_storage_directory called on its own, several times                 *)
(***************************************************************************)

\* the `root` arguments; None stands for an undefined BASE_STORAGE_DIRECTORY
StorageRoots == {BASE_STORAGE_DIRECTORY, <<"/">>, None}

StorageBases == {WorkflowsEndpoint, TrashBase}

StorageIdentifiers == {0, 7, 45, 2345, 12345, 112345}

\* make_storage_directory is called at most this many times
MaxCalls == 2

InitStorage ==
    /\ fs = << >>
    /\ workflows = [pk \in Pks |-> InitialWorkflow(pk, {})]
    /\ dirs = {}
    /\ directories = <<InDir>>
    /\ key = "system_id"
    /\ order = <<1, 2, 3>>
    /\ pc = "storage"
    /\ commit = FALSE
    /\ symlink = FALSE
    /\ Locals
    /\ reg0 = workflows
    /\ imported = {}
    /\ preview = NoPreview
    /\ probe = [calls |-> << >>]

\* make_storage_directory(base, identifier, use_hash, root): lines 101-116
MakeStorageDirectory ==
    /\ pc = "storage"
    /\ Len(probe.calls) < MaxCalls
    /\ \E root \in StorageRoots, base \in StorageBases,
          identifier \in StorageIdentifiers, use_hash \in BOOLEAN :
          LET storage_directory == make_storage_directory(base, identifier, use_hash, root)
          IN  IF root = None
              THEN /\ probe' = [probe EXCEPT !.calls = Append(@,
                                   [root |-> root, base |-> base,
                                    identifier |-> identifier, use_hash |-> use_hash,
                                    raised |-> TRUE, path |-> None])]
                   /\ UNCHANGED dirs
              ELSE /\ probe' = [probe EXCEPT !.calls = Append(@,
                                   [root |-> root, base |-> base,
                                    identifier |-> identifier, use_hash |-> use_hash,
                                    raised |-> FALSE, path |-> storage_directory])]
                   /\ dirs' = dirs \cup makedirs(storage_directory)
    /\ UNCHANGED << workflows, fs, directories, key, order, pc, commit, symlink,
                    todo, identifiers, patterns, cache, queue, bar, cur,
                    workflows_matched, summary, error, offered, relocated,
                    patched, reg0, imported, preview >>

NextStorage == MakeStorageDirectory

SpecStorage == InitStorage /\ [][NextStorage]_vars

(***************************************************************************)
(* Properties                                                              *)
(***************************************************************************)

\* the identifier pattern of entry alone matches path
WouldMatch(entry, path) ==
    /\ Key(entry.instance) # None
    /\ FirstMatch(<<get_regex_pattern(entry.pk, Key(entry.instance))>>, path) # 0

\* C1: in a committing invocation the 'multiple formats are not supported'
\* error is raised before any file of any entity has been moved or linked.
C1_FormatErrorBeforeAnyRelocation ==
    (pc = "error" /\ commit /\ error.kind = "multiple_formats") => relocated = << >>

\* C2: an invocation without commit changes nothing outside the call: no file
\* is moved or linked, no directory is created and no entity is patched.
C2_DryRunChangesNothing ==
    [][(pc # "idle" /\ ~commit) =>
          (fs' = fs /\ dirs' = dirs /\ workflows' = workflows /\
           relocated' = << >> /\ patched' = {})]_vars

\* C2: a dry-run invocation returned with matched entities
C2_Witness == pc = "done" /\ ~commit /\ workflows_matched # << >>

\* C3: two distinct queried entities with the same non-null key always make
\* import_data fail with the duplicate-identifier error, whichever comes first
\* and whether or not either has recorded data, before any directory is walked.
C3_DuplicateKeyAlwaysRaises ==
    (/\ pc \notin {"idle", "load"}
     /\ \A a \in Range(order) : Resolve(reg0[a]).type = "str" \/ Key(reg0[a]) = None
     /\ \E a, b \in Range(order) :
           a # b /\ Key(reg0[a]) # None /\ Key(reg0[a]) = Key(reg0[b]))
    => (pc = "error" /\ error.kind = "duplicate" /\ offered = {})

\* C4: whenever an entity matches both a .bam and a .fastq file, import_data
\* raises a usage error, in a dry-run as well as in a committing invocation:
\* no invocation returns normally with such an entity.
C4_MixedTypesAlwaysRaise ==
    pc = "done" =>
        \A k \in DOMAIN cache :
            ~(/\ \E j \in DOMAIN cache[k].files : BAM_REGEX(cache[k].files[j])
              /\ \E j \in DOMAIN cache[k].files : FastqExtension(cache[k].files[j]))

\* C5: a scanned file that matches an eligible entity's pattern and ends in a
\* sequence-read extension while its name carries neither a read-1 nor a
\* read-2 token aborts the invocation with the read-index error, before any
\* file is relocated and before any entity is patched.
C5_UnindexedReadFileAborts ==
    \A path \in offered :
        (/\ FirstMatch(patterns, path) # 0
         /\ FastqExtension(path)
         /\ ReadIndex(basename(path)) = 0)
        => (/\ pc = "error"
            /\ error.kind = "read_index"
            /\ relocated = << >>
            /\ patched = {})

\* C6: an entity that already has recorded sequencing data is not part of the
\* compiled pattern, its match list stays empty, it is reported as skipped,
\* none of its files is relocated and its registry record is never patched.
C6_EntityWithDataIsLeftAlone ==
    \A k \in DOMAIN cache :
        cache[k].instance.sequencing_data # << >> =>
            /\ \A j \in DOMAIN patterns : patterns[j].group # cache[k].pk
            /\ cache[k].files = << >>
            /\ \A j \in DOMAIN relocated : relocated[j].pk # cache[k].pk
            /\ cache[k].pk \notin patched
            /\ workflows[cache[k].pk] = reg0[cache[k].pk]
            /\ pc = "done" =>
                  /\ \E j \in DOMAIN summary.skipped :
                        summary.skipped[j] = cache[k].using_id
                  /\ \A j \in DOMAIN summary.missing :
                        summary.missing[j] # cache[k].using_id
                  /\ \A j \in DOMAIN summary.matched :
                        summary.matched[j].using_id # cache[k].using_id

\* C6: a committing invocation returned, and a file it explored carries the
\* identifier of an entity that already had data
C6_Witness ==
    /\ pc = "done"
    /\ commit
    /\ \E k \in DOMAIN cache :
          /\ cache[k].instance.sequencing_data # << >>
          /\ \E path \in offered : WouldMatch(cache[k], path)

\* C7: once a committing invocation has relocated an entity's files and
\* persisted its data descriptors, every later invocation finds no match for
\* that entity, reports it as skipped, relocates no file for it and does not
\* patch it again.
C7_ReRunIsIdempotent ==
    \A pk \in imported :
        /\ \A j \in DOMAIN relocated : relocated[j].pk # pk
        /\ pk \notin patched
        /\ workflows[pk] = reg0[pk]
        /\ \A k \in DOMAIN cache :
              cache[k].pk = pk =>
                 /\ cache[k].files = << >>
                 /\ pc = "done" =>
                       \E j \in DOMAIN summary.skipped :
                           summary.skipped[j] = cache[k].using_id

\* C7: a later invocation returned although the files of an entity imported
\* earlier (by links) are still where it explores
C7_Witness ==
    /\ pc = "done"
    /\ \E k \in DOMAIN cache :
          /\ cache[k].pk \in imported
          /\ \E path \in offered : WouldMatch(cache[k], path)

\* number of entries of a list of the summary that name system_id
Listed(list, system_id) ==
    Cardinality({j \in DOMAIN list : list[j].system_id = system_id})

\* C8: get_summary places every queried entity in exactly one of skipped
\* (has data), missing (no data, no match) and matched (no data, a match),
\* and total samples = skipped + missing + matched.
C8_SummaryPartitionsEntities ==
    pc = "done" =>
        /\ \A pk \in Range(order) :
              LET entry == cache[CacheIndex(cache, pk)]
                  sid == reg0[pk].system_id
                  inSkipped == Listed(summary.skipped, sid)
                  inMissing == Listed(summary.missing, sid)
                  inMatched == Listed([j \in DOMAIN summary.matched |->
                                          summary.matched[j].using_id], sid)
              IN  /\ inSkipped + inMissing + inMatched = 1
                  /\ inSkipped = 1 <=> reg0[pk].sequencing_data # << >>
                  /\ inMatched = 1 <=>
                        (reg0[pk].sequencing_data = << >> /\ entry.files # << >>)
        /\ summary.total_samples = Len(order)
        /\ summary.total_samples =
              summary.samples_skipped + summary.samples_missing
                + summary.samples_matched
        /\ summary.samples_skipped = Len(summary.skipped)
        /\ summary.samples_missing = Len(summary.missing)
        /\ summary.samples_matched = Len(summary.matched)

\* C8: a summary with an entity in each of the three outcomes
C8_Witness ==
    /\ pc = "done"
    /\ summary.samples_skipped > 0
    /\ summary.samples_missing > 0
    /\ summary.samples_matched > 0

\* the directory is the managed storage root or lies inside it
InsideStorageRoot(directory) ==
    \/ directory = BASE_STORAGE_DIRECTORY
    \/ StartsWith(directory, BASE_STORAGE_DIRECTORY \o <<"/">>)

\* C10: a file is offered to the matcher if and only if it lies beneath one of
\* the given directories and its directory is neither the managed storage
\* root nor a descendant of it.
C10_ExactlyFilesOutsideStorageOffered ==
    (pc = "done" /\ patterns # << >>) =>
        \A path \in DOMAIN fs :
            path \in offered <=>
                /\ \E k \in DOMAIN directories : Under(path, directories[k])
                /\ ~InsideStorageRoot(dirname(path))

\* identifier occurs in path at position p, each of its separators standing
\* for any separator, and is followed by a separator
OccursAt(identifier, path, p) ==
    /\ p + Len(identifier) <= Len(path)
    /\ \A k \in DOMAIN identifier :
          IF identifier[k] \in Separators THEN path[p + k - 1] \in Separators
          ELSE path[p + k - 1] = identifier[k]
    /\ path[p + Len(identifier)] \in Separators

\* the occurrence at p is preceded by the start of the path or by a separator
BoundedOnTheLeft(path, p) == p = 1 \/ path[p - 1] \in Separators

\* C9 as stated: the pattern of identifier X matches a path if and only if X
\* occurs in it as a delimiter-bounded token, preceded by the start of the
\* string or a separator and followed by a separator.
C9_DelimiterBoundedToken ==
    probe.result # "none" =>
        (probe.result = "match" <=>
            \E p \in DOMAIN probe.path :
                /\ OccursAt(probe.identifier, probe.path, p)
                /\ BoundedOnTheLeft(probe.path, p))

\* C9 as amended: the pattern of identifier X matches a path if and only if X
\* occurs in it (each separator of X matching any separator) followed by a
\* separator; what precedes X does not matter.
C9_TokenFollowedBySeparator ==
    probe.result # "none" =>
        (probe.result = "match" <=>
            \E p \in DOMAIN probe.path :
                OccursAt(probe.identifier, probe.path, p))

\* C9: the pattern matched a path in which the identifier is only preceded
\* by a letter or by "/", never by a separator or the start of the path
C9_Witness ==
    /\ probe.result = "match"
    /\ \A p \in DOMAIN probe.path :
          OccursAt(probe.identifier, probe.path, p) => ~BoundedOnTheLeft(probe.path, p)

\* os.rename cannot move the next file of the entity import_files is at
RelocationFails ==
    /\ pc = "import"
    /\ cur.src_dst # << >>
    /\ ~symlink
    /\ realpath(Head(cur.src_dst).src) \notin DOMAIN fs

\* C11: when relocating one file of an entity fails during commit, the failure
\* reaches the caller as an error, the entity's data descriptors and on-disk
\* size are not persisted, the entity is not among the returned entities, and
\* its files relocated before the failure stay at their destinations.
C11_FailedRelocationPropagates ==
    /\ [][RelocationFails =>
             (/\ pc' = "error"
              /\ error'.kind = "io"
              /\ fs' = fs
              /\ workflows' = workflows
              /\ workflows_matched' = workflows_matched)]_vars
    /\ [](pc = "error" /\ error.kind = "io" =>
             LET pk == cur.instance.pk
             IN  /\ workflows[pk].sequencing_data = reg0[pk].sequencing_data
                 /\ workflows[pk].storage_usage = reg0[pk].storage_usage
                 /\ \A k \in DOMAIN workflows_matched : workflows_matched[k].pk # pk
                 /\ \A j \in DOMAIN relocated :
                       relocated[j].pk = pk =>
                          /\ relocated[j].dst \in DOMAIN fs
                          /\ relocated[j].src \notin DOMAIN fs)

\* C11: a move failed after another file of the same entity had been moved
C11_Witness ==
    /\ pc = "error"
    /\ error.kind = "io"
    /\ \E j \in DOMAIN relocated : relocated[j].pk = cur.instance.pk

\* C12: for every file name that carries a read-index token, formatting the
\* formatted name again returns it unchanged.
C12_FormatIsIdempotent ==
    (pc = "fastq" /\ probe.calls = 2) =>
        (~probe.raised /\ probe.again = probe.result)

\* the k-th piece is a read token for index i: '_R<i>', '.R<i>' or '_<i>'
IsReadToken(pieces, k, i) ==
    pieces[k] \in {<<c, "R">> \o str(i) : c \in IndexSeparators} \cup {<<"_">> \o str(i)}

ReadTokens(pieces, i) == {k \in DOMAIN pieces : IsReadToken(pieces, k, i)}

\* the name the claim expects for pieces whose only read token is the k-th:
\* the token goes, with the separator that follows it, what comes after it is
\* joined by '_', and '_<i>.fastq' and the '.gz' of the name end it
CanonicalName(pieces, extension, k, i) ==
    LET before == Concat(SubSeq(pieces, 1, k - 1))
        after == Concat(SubSeq(pieces, k + 1, Len(pieces)))
        joined == IF Len(after) <= 1 THEN << >> ELSE <<"_">> \o Tail(after)
        gz == IF EndsWith(extension, Gz) THEN Gz ELSE << >>
    IN  Sample \o before \o joined \o <<"_">> \o str(i) \o <<".">> \o Fastq \o gz

PairAndBamCommitted ==
    /\ pc = "done"
    /\ commit
    /\ key = "system_id"
    /\ offered = {Catalogue[1], Catalogue[2], Catalogue[3]}
    /\ reg0[1].sequencing_data = << >>
    /\ reg0[2].sequencing_data = << >>

\* src was relocated to `name` in the data directory of entity pk
RelocatedTo(pk, src, name) ==
    LET dst == join(join(workflows[pk].storage_url, DataDirName), name)
    IN  /\ dst \in DOMAIN fs
        /\ \E j \in DOMAIN relocated :
              relocated[j] = [pk |-> pk, src |-> src, dst |-> dst]

\* C14 as stated: the commit relocates the fastq pair to 's1_1.fastq' and
\* 's1_2.fastq' in the data directory of 's1' and the bam to 's2.bam' in the
\* data directory of 's2'.
C14_PairRenamedToIdentifierAndIndex ==
    PairAndBamCommitted =>
        /\ RelocatedTo(1, Catalogue[1], S1 \o <<"_", "1", ".">> \o Fastq)
        /\ RelocatedTo(1, Catalogue[2], S1 \o <<"_", "2", ".">> \o Fastq)
        /\ RelocatedTo(2, Catalogue[3], S2 \o <<".", "b", "a", "m">>)

\* C14 as amended: the commit relocates the fastq pair to 's1_x_1.fastq' and
\* 's1_x_2.fastq' in the data directory of 's1', the free text 'x' of the
\* names being kept, and the bam to 's2.bam' in the data directory of 's2'.
C14_PairKeepsFreeText ==
    PairAndBamCommitted =>
        /\ RelocatedTo(1, Catalogue[1], S1 \o <<"_", "x", "_", "1", ".">> \o Fastq)
        /\ RelocatedTo(1, Catalogue[2], S1 \o <<"_", "x", "_", "2", ".">> \o Fastq)
        /\ RelocatedTo(2, Catalogue[3], S2 \o <<".", "b", "a", "m">>)
        /\ \A j \in DOMAIN relocated :
              relocated[j].src \in {Catalogue[1], Catalogue[2], Catalogue[3]}

\* C14: the scenario was committed by moving the files
C14_Witness == PairAndBamCommitted /\ ~symlink /\ Len(relocated) = 3

\* the file name import_files starts from: canonicalized for a sequence file,
\* the basename for a bam or a cram
NameBeforePrefix(src) ==
    IF BAM_REGEX(src) \/ CRAM_REGEX(src) THEN basename(src)
    ELSE format_fastq_name(basename(src))

\* C15: every destination file name computed by import_files begins with the
\* system identifier of the entity: a name that already begins with it is
\* used unchanged, any other name gets '<system_id>__' in front.
C15_DestinationBeginsWithSystemId ==
    pc = "import" =>
        \A k \in DOMAIN cur.src_dst :
            LET sid == cur.instance.system_id
                name == NameBeforePrefix(cur.src_dst[k].src)
                file_name == basename(cur.src_dst[k].dst)
            IN  /\ StartsWith(file_name, sid)
                /\ StartsWith(name, sid) => file_name = name
                /\ ~StartsWith(name, sid) => file_name = sid \o <<"_", "_">> \o name
                /\ cur.sequencing_data[Len(cur.sequencing_data)
                                         - Len(cur.src_dst) + k].file_url
                      = cur.src_dst[k].dst

\* C15: import_files computed a destination for a file whose name does not
\* begin with the system identifier, and one for a file whose name does
C15_Witness ==
    /\ pc = "import"
    /\ \E k \in DOMAIN cur.src_dst :
          ~StartsWith(basename(cur.src_dst[k].src), cur.instance.system_id)
    /\ \E k \in DOMAIN cur.src_dst :
          StartsWith(basename(cur.src_dst[k].src), cur.instance.system_id)

\* 'data' under the storage location the registry holds for entity pk
DataDirectory(pk) == join(workflows[pk].storage_url, DataDirName)

MatchedAs(pk) ==
    {j \in DOMAIN summary.matched :
        summary.matched[j].using_id.system_id = workflows[pk].system_id}

\* C17: the summary of a committing invocation is the summary a dry-run over
\* the same entities and files returned just before, and an entity whose
\* files were committed in this invocation is reported as matched, with its
\* source paths, not as skipped.
C17_SummaryIsThePreview ==
    (pc = "done" /\ commit) =>
        /\ preview.valid => summary = preview.summary
        /\ \A pk \in ImportedNow :
              /\ MatchedAs(pk) # {}
              /\ \A j \in MatchedAs(pk) :
                    summary.matched[j].files =
                        [k \in DOMAIN SelectSeq(relocated, LAMBDA r : r.pk = pk) |->
                            SelectSeq(relocated, LAMBDA r : r.pk = pk)[k].src]
              /\ Listed(summary.skipped, workflows[pk].system_id) = 0

\* C17: a commit that imported an entity returned right after a dry-run
C17_Witness ==
    /\ pc = "done"
    /\ commit
    /\ preview.valid
    /\ ImportedNow # {}

\* the identifier path resolves to something else than an integer, a string
\* or null on the workflow of primary key pk
OtherType(pk) == Resolve(reg0[pk]).type \notin {"int", "str", "NoneType"}

\* position in the query order of the first workflow of another type
FirstOtherType ==
    CHOOSE p \in DOMAIN order :
        /\ OtherType(order[p])
        /\ \A q \in 1..(p - 1) : ~OtherType(order[q])

\* position in the query order of the workflow the loop of line 398 is at
Position == Len(order) - Len(todo) + 1

\* nothing was walked, relocated or patched in this invocation
NothingTouched ==
    /\ offered = {}
    /\ queue = << >>
    /\ relocated = << >>
    /\ patched = {}
    /\ workflows = reg0

\* C18 as stated: when the identifier path resolves, for some queried entity,
\* to a value that is not an integer, a string or null, the command aborts
\* with the 'invalid type for identifier' error before any directory is
\* walked, any file relocated or any entity patched.
C18_InvalidTypeAlwaysReported ==
    (pc \notin {"idle", "load"} /\ \E pk \in Range(order) : OtherType(pk)) =>
        (pc = "error" /\ error.kind = "invalid_type" /\ NothingTouched)

\* C18 as amended: in that case the command aborts before any directory is
\* walked, any file relocated or any entity patched, while it loads the
\* entities: with the 'invalid type for identifier' error when it reaches the
\* first such entity, or with the duplicate-identifier error at an entity
\* the query returned before that one.
C18_AbortsWhileLoading ==
    (pc \notin {"idle", "load"} /\ \E pk \in Range(order) : OtherType(pk)) =>
        /\ pc = "error"
        /\ NothingTouched
        /\ Position <= FirstOtherType
        /\ Position = FirstOtherType => error.kind = "invalid_type"
        /\ Position < FirstOtherType => error.kind = "duplicate"

\* C18: the type error was raised after other entities had been loaded
C18_Witness ==
    /\ pc = "error"
    /\ error.kind = "invalid_type"
    /\ cache # << >>

\* C19: trash_analysis_storage on an analysis whose status is SUCCEEDED raises
\* the usage error, leaves the storage directory and its files where they
\* are, creates no trash directory, and raises before it looks at the
\* storage directory.
C19_SucceededAnalysisIsNotWiped ==
    (pc \in {"trash", "trash_move"} /\ probe.analysis.status = "SUCCEEDED") =>
        /\ pc = "trash"
        /\ probe.result \in {"none", "UsageError"}
        /\ ~probe.looked
        /\ dirs = probe.dirs
        /\ fs = probe.fs

\* C19: the usage error was raised for a succeeded analysis whose storage
\* directory exists and holds files
C19_Witness ==
    /\ pc = "trash"
    /\ probe.analysis.status = "SUCCEEDED"
    /\ probe.result = "UsageError"
    /\ probe.analysis.storage_url \in dirs
    /\ DOMAIN fs # {}

\* the two decimal digits of k < 100
TwoDigits(k) == str(k \div 10) \o str(k % 10)

\* '<hi>/<lo>' of the claim: the third and fourth from last, and the last
\* two, decimal digits of n
Shard(n) == TwoDigits((n \div 100) % 100) \o <<"/">> \o TwoDigits(n % 100)

\* the path the claim gives for a call
ClaimedPath(call) ==
    WithSlash(call.root) \o call.base \o <<"/">>
        \o (IF call.use_hash THEN Shard(call.identifier) \o <<"/">> ELSE << >>)
        \o str(call.identifier)

C21_CommitHonoursMode ==
    (pc = "done" /\ commit) =>
        \A j \in DOMAIN relocated :
            LET src == relocated[j].src
                dst == relocated[j].dst
            IN  IF symlink
                THEN /\ src \in DOMAIN fs
                     /\ fs[src] = [kind |-> "file", size |-> fs[src].size, ref |-> src]
                     /\ dst \in DOMAIN fs
                     /\ fs[dst].kind = "link"
                     /\ fs[dst].ref = src
                ELSE /\ src \notin DOMAIN fs
                     /\ dst \in DOMAIN fs
                     /\ fs[dst].kind = "file"
                     /\ fs[dst].ref = src

\* the File Kind category of the spec: aligned reads or sequence
Category(src) ==
    IF FileType(src) \in {"BAM", "CRAM"} THEN "AlignedReads" ELSE "sequence"

\* the categories of the files matched to the entity of primary key pk
Categories(pk) ==
    LET files == cache[CacheIndex(cache, pk)].files
    IN  {Category(files[k]) : k \in DOMAIN files}

\* C22: the multiple-data-formats error is raised for an entity exactly when
\* its matches span more than one category, read 1 and read 2 files being one
\* category and .bam and .cram files being one category.
C22_ErrorExactlyForSeveralCategories ==
    /\ (pc = "error" /\ error.kind = "multiple_formats") =>
          \E k \in DOMAIN cache :
              /\ cache[k].instance.system_id = error.entities[1]
              /\ Cardinality(Categories(cache[k].pk)) > 1
    /\ pc = "import" => Cardinality(Categories(cur.instance.pk)) = 1

\* C24: in the match set of one invocation each discovered path occurs at
\* most once: not under two entities and not twice under one entity.
C24_PathMatchedAtMostOnce ==
    \A a, b \in DOMAIN cache :
        \A i \in DOMAIN cache[a].files, j \in DOMAIN cache[b].files :
            cache[a].files[i] = cache[b].files[j] => (a = b /\ i = j)

\* the entities import_files has returned for in this invocation
Committed == {workflows_matched[k].pk : k \in DOMAIN workflows_matched}

\* the relocations of this invocation that belong to the entity pk, in order
RelocationsOf(pk) == SelectSeq(relocated, LAMBDA r : r.pk = pk)

\* the byte size the file had when the invocation started
SizeOnDisk(src) == InitialSize(CHOOSE k \in DOMAIN AllFiles : AllFiles[k] = src)

\* C23: after a successful commit of an entity its persisted data descriptors
\* are one per matched file, in match order, each with the destination the
\* file was relocated to, its file type, the annotation supplied for its
\* original basename (empty when none) and the byte size of the source file.
C23_DescriptorsRecordTheMatches ==
    (commit /\ pc \in {"process", "import", "done", "error"}) =>
        \A pk \in Committed :
            LET files == cache[CacheIndex(cache, pk)].files
                data == workflows[pk].sequencing_data
                moves == RelocationsOf(pk)
            IN  /\ Len(data) = Len(files)
                /\ Len(moves) = Len(files)
                /\ \A k \in DOMAIN files :
                      /\ moves[k].src = files[k]
                      /\ data[k].file_url = moves[k].dst
                      /\ data[k].file_type = FileType(files[k])
                      /\ data[k].file_data = files_data(basename(files[k]))
                      /\ data[k].hash_value = SizeOnDisk(files[k])

\* C23: an annotated file was committed under a name that is not its own
C23_Witness ==
    /\ pc = "done"
    /\ commit
    /\ 1 \in Committed
    /\ \E k \in DOMAIN workflows[1].sequencing_data :
          /\ cache[CacheIndex(cache, 1)].files[k] = Catalogue[1]
          /\ workflows[1].sequencing_data[k].file_data = "LB"
          /\ basename(workflows[1].sequencing_data[k].file_url) # basename(Catalogue[1])

\* the primary keys of a sequence of records ascend strictly
Ascending(records) ==
    \A a, b \in DOMAIN records : a < b => records[a].pk < records[b].pk

\* the entities of the cache with at least one matched file
WithMatches == {cache[k].pk : k \in {j \in DOMAIN cache : cache[j].files # << >>}}

\* C25: a committing invocation processes the entities in ascending order of
\* primary key, whatever the order of the registry query, and returns one
\* updated record for each entity with a matched file, in that order;
\* entities without matches or with earlier data are neither processed nor
\* returned.
C25_ProcessedInPrimaryKeyOrder ==
    (commit /\ pc \in {"process", "import", "done", "error"}) =>
        /\ \A a, b \in DOMAIN relocated :
              a < b => relocated[a].pk <= relocated[b].pk
        /\ Ascending(workflows_matched)
        /\ \A k \in DOMAIN workflows_matched :
              /\ workflows_matched[k] = workflows[workflows_matched[k].pk]
              /\ workflows_matched[k].sequencing_data # << >>
        /\ Committed \subseteq WithMatches
        /\ pc = "done" => Committed = WithMatches
        /\ \A pk \in Pks :
              (pk \notin WithMatches \/ reg0[pk].sequencing_data # << >>) =>
                  /\ pk \notin Committed
                  /\ pk \notin patched
                  /\ workflows[pk] = reg0[pk]
                  /\ \A j \in DOMAIN relocated : relocated[j].pk # pk

\* C25: the query returned the entities in descending order, two of them
\* were committed and the third had no match
C25_Witness ==
    /\ pc = "done"
    /\ commit
    /\ order = <<3, 2, 1>>
    /\ Len(workflows_matched) = 2
    /\ workflows_matched[2].pk = 3
    /\ Cardinality(WithMatches) = 2

\* the compiled groups in ascending order of primary key
ByPrimaryKey(groups) ==
    LET pks == SortSet({groups[k].group : k \in DOMAIN groups})
    IN  [j \in DOMAIN pks |->
            groups[CHOOSE k \in DOMAIN groups : groups[k].group = pks[j]]]

\* C26: the entity a file is matched to does not depend on the order in which
\* the registry query returns the entities: it is the entity the combined
\* pattern gives with its alternatives in ascending order of primary key.
C26_MatchingIndependentOfQueryOrder ==
    \A k \in DOMAIN cache :
        \A j \in DOMAIN cache[k].files :
            match_path(cache[k].files[j], ByPrimaryKey(patterns)).index = cache[k].pk

\* C27: during commit distinct matched source files are given distinct
\* destinations, so that no relocation replaces a file relocated earlier in
\* the same invocation.
C27_DistinctSourcesDistinctDestinations ==
    \A a, b \in DOMAIN relocated :
        relocated[a].src # relocated[b].src => relocated[a].dst # relocated[b].dst

\* C28: an invocation that ends in a validation error (duplicate identifier,
\* undeterminable read index, multiple data formats) leaves the registry as
\* it was before the call.
C28_ValidationErrorLeavesRegistry ==
    (/\ pc = "error"
     /\ error.kind \in {"duplicate", "read_index", "multiple_formats"}) =>
        workflows = reg0

====
